---- MODULE Spec2Model ----
(***************************************************************************)
(* Model of linkedinscraper.py: the login handshake of                     *)
(* LinkedInScraper.login_to_linkedin, the container discovery and the      *)
(* collection loop of LinkedInScraper.scrape_feed_posts, the field         *)
(* extraction of LinkedInScraper.extract_post_data, and the control flow   *)
(* of main that connects them.                                             *)
(*                                                                         *)
(* The browser page and the human operator are the environment: every DOM  *)
(* call and every input() is an outcome chosen by the environment (a       *)
(* value, or a raised exception).                                          *)
(***************************************************************************)
EXTENDS Integers, Sequences, FiniteSets, TLC

\* ------------------------------------------------------------------------
\* Bounds of the model
\* ------------------------------------------------------------------------

\* largest number of elements one container selector matches on the page
MaxContainers == 3

\* ------------------------------------------------------------------------
\* Program constants
\* ------------------------------------------------------------------------

\* num_posts=5: the default of scrape_feed_posts and the value main passes
DefaultNumPosts == 5

\* for i in range(3): the scroll-to-bottom commands
NumScrolls == 3

\* len(text.strip()) > 10
MinContentLen == 10

\* content_parts[:3]
MaxContentParts == 3

\* selectors_to_try, in declared order
selectors_to_try ==
    << "div[data-id]", ".feed-shared-update-v2", ".occludable-update",
       "article", "[data-urn]" >>

\* content_selectors, in declared order
content_selectors ==
    << "div[data-id] span[dir=ltr]", ".feed-shared-text",
       ".feed-shared-inline-show-more-text", "span[dir=ltr]" >>

\* the keywords of the engagement scan
EngagementKeywords == {"like", "comment", "share", "react"}

\* the path patterns of the authenticated surfaces
SurfacePaths == {"/feed/", "/in/", "/mynetwork", "/messaging"}

\* the defaults of post_data
DefaultAuthor == "Unknown"

DefaultContent == ""

DefaultEngagement == {}

DefaultTimestamp == "Unknown"

\* Python's None, as returned by extract_post_data
None == [none |-> TRUE]

\* ------------------------------------------------------------------------
\* Texts of the page
\* ------------------------------------------------------------------------

LongA == "Excited to share our new results"

LongB == "Thanks to the whole team for this"

LongC == "Read the full story in the comments"

LongD == "Follow us for more updates soon"

\* str.strip() on the texts that occur in the modelled pages: leading and
\* trailing whitespace is removed, everything else is kept
Strip(text) ==
    CASE text = " Ann "      -> "Ann"
      [] text = "  "         -> ""
      [] text = " 2h "       -> "2h"
      [] text = "  Like  "   -> "Like"
      [] text = " Unknown "  -> "Unknown"
      [] OTHER               -> text

\* the keywords that occur in text.lower(), for the texts of the modelled pages
KeywordsIn(text) ==
    CASE text = "12 Likes"   -> {"like"}
      [] text = "  Like  "   -> {"like"}
      [] text = "3 Comments" -> {"comment"}
      [] text = LongC        -> {"comment"}
      [] text = LongA        -> {"share"}
      [] OTHER               -> {}

\* ------------------------------------------------------------------------
\* extract_post_data
\* ------------------------------------------------------------------------

\* the text parts of one content selector's elements that pass
\*   text and text.strip() and len(text.strip()) > 10
RECURSIVE ContentParts(_)
ContentParts(texts) ==
    IF texts = << >> THEN << >>
    ELSE LET text == Head(texts)
             rest == ContentParts(Tail(texts))
         IN  IF text # "" /\ Strip(text) # "" /\ Len(Strip(text)) > MinContentLen
             THEN << Strip(text) >> \o rest
             ELSE rest

\* content_parts[:3]
FirstParts(parts) ==
    SubSeq(parts, 1, IF Len(parts) < MaxContentParts THEN Len(parts) ELSE MaxContentParts)

\* '\n'.join(parts)
RECURSIVE JoinLines(_)
JoinLines(parts) ==
    IF parts = << >> THEN ""
    ELSE IF Len(parts) = 1 THEN parts[1]
    ELSE parts[1] \o "\n" \o JoinLines(Tail(parts))

\* the loop over content_selectors from selector s on: the first selector
\* that has elements and at least one passing part decides the content
RECURSIVE ContentFrom(_, _)
ContentFrom(cascade, s) ==
    IF s > Len(content_selectors) THEN DefaultContent
    ELSE LET content_elements == cascade[s]
             content_parts    == ContentParts(content_elements)
         IN  IF content_elements # << >> /\ content_parts # << >>
             THEN JoinLines(FirstParts(content_parts))
             ELSE ContentFrom(cascade, s + 1)

\* the loop over reaction_elements: the dict after the elements els, starting
\* from the dict engagement; an inner_text() that raises ends the loop and
\* keeps what was stored before it (aria "" stands for a missing or empty
\* aria-label, both falsy)
RECURSIVE ReactionScan(_, _)
ReactionScan(els, engagement) ==
    IF els = << >> THEN engagement
    ELSE LET element == Head(els)
         IN  IF element.raises THEN engagement
             ELSE IF element.text # ""
                     /\ KeywordsIn(element.text) \cap EngagementKeywords # {}
                     /\ element.aria # ""
                  THEN ReactionScan(Tail(els), {<< "reactions", element.aria >>})
                  ELSE ReactionScan(Tail(els), engagement)

\* the engagement block and its bare except
ExtractEngagement(dom) ==
    IF dom.reactions.raises THEN DefaultEngagement
    ELSE ReactionScan(dom.reactions.els, DefaultEngagement)

\* the timestamp block and its bare except
ExtractTimestamp(dom) ==
    IF dom.time.raises THEN DefaultTimestamp
    ELSE IF dom.time.el THEN Strip(dom.time.text)
    ELSE DefaultTimestamp

\* if post_data['content'] or post_data['author'] != 'Unknown'
IsMeaningful_NoCheck(post_data) == TRUE

IsMeaningful(post_data) ==
    post_data.content # "" \/ post_data.author # DefaultAuthor

\* extract_post_data(post_element, post_number): the record, or None.
\* The author and the content blocks are guarded only by the outer try, so a
\* DOM call that raises there makes the whole call return None.
\* The field element is a history field: it names the element handle the
\* record was built from.
ExtractPostData(post_element, post_number) ==
    LET dom == post_element.dom
    IN  IF dom.author.raises THEN None
        ELSE IF dom.content.raises THEN None
        ELSE LET post_data ==
                   [ post_number |-> post_number,
                     author      |-> IF dom.author.el
                                     THEN Strip(dom.author.text)
                                     ELSE DefaultAuthor,
                     content     |-> ContentFrom(dom.content.cascade, 1),
                     engagement  |-> ExtractEngagement(dom),
                     timestamp   |-> ExtractTimestamp(dom),
                     element     |-> [sel |-> post_element.sel,
                                      pos |-> post_element.pos] ]
             IN  IF IsMeaningful(post_data) THEN post_data ELSE None

\* ------------------------------------------------------------------------
\* The pages the browser can show
\* ------------------------------------------------------------------------

\* what the DOM calls of extract_post_data see in one container; raises
\* marks a DOM call that raises
AuthorAbsent == [raises |-> FALSE, el |-> FALSE, text |-> ""]

AuthorAnn == [raises |-> FALSE, el |-> TRUE, text |-> " Ann "]

AuthorBlank == [raises |-> FALSE, el |-> TRUE, text |-> "  "]

AuthorRaises == [raises |-> TRUE, el |-> TRUE, text |-> " Ann "]

ContentNone == [raises |-> FALSE, cascade |-> << << >>, << >>, << >>, << >> >>]

ContentShort ==
    [raises |-> FALSE, cascade |-> << << >>, << >>, << >>, << "  Like  " >> >>]

ContentFirst ==
    [raises |-> FALSE,
     cascade |-> << << LongA >>, << >>, << >>, << LongA, "  Like  " >> >>]

ContentFallback ==
    [raises |-> FALSE,
     cascade |-> << << "  Like  " >>, << LongA, LongB, LongC, LongD >>, << >>,
                    << "  Like  ", LongA >> >>]

ContentRaises == [raises |-> TRUE, cascade |-> ContentFirst.cascade]

LikesButton == [raises |-> FALSE, text |-> "12 Likes", aria |-> "12 reactions"]

CommentsSpan == [raises |-> FALSE, text |-> "3 Comments", aria |-> ""]

AnnSpan == [raises |-> FALSE, text |-> " Ann ", aria |-> ""]

BrokenSpan == [raises |-> TRUE, text |-> "3 Comments", aria |-> "3 comments"]

ReactionsNone == [raises |-> FALSE, els |-> << >>]

ReactionsLabel == [raises |-> FALSE, els |-> << AnnSpan, LikesButton, CommentsSpan >>]

ReactionsPartial == [raises |-> FALSE, els |-> << LikesButton, BrokenSpan >>]

ReactionsRaises == [raises |-> TRUE, els |-> ReactionsLabel.els]

TimeAbsent == [raises |-> FALSE, el |-> FALSE, text |-> ""]

TimeShown == [raises |-> FALSE, el |-> TRUE, text |-> " 2h "]

TimeRaises == [raises |-> TRUE, el |-> TRUE, text |-> " 2h "]

Dom(a, c, r, t) == [author |-> a, content |-> c, reactions |-> r, time |-> t]

\* the containers of the modelled feeds
DomFull == Dom(AuthorAnn, ContentFirst, ReactionsLabel, TimeShown)

DomEmpty == Dom(AuthorAbsent, ContentShort, ReactionsNone, TimeAbsent)

DomContentOnly == Dom(AuthorAbsent, ContentFallback, ReactionsNone, TimeShown)

DomBlankAuthor == Dom(AuthorBlank, ContentNone, ReactionsNone, TimeAbsent)

DomAuthorFault == Dom(AuthorRaises, ContentFirst, ReactionsLabel, TimeShown)

DomContentFault == Dom(AuthorAnn, ContentRaises, ReactionsLabel, TimeShown)

DomReactionsFault == Dom(AuthorAnn, ContentFirst, ReactionsPartial, TimeShown)

DomTimeFault == Dom(AuthorAnn, ContentFirst, ReactionsLabel, TimeRaises)

Doms ==
    { DomFull, DomEmpty, DomContentOnly, DomBlankAuthor,
      DomAuthorFault, DomContentFault, DomReactionsFault, DomTimeFault }

\* the feeds: the containers of the page in document order
Feeds == UNION { [1..n -> Doms] : n \in 0..MaxContainers }

NumSelectors == Len(selectors_to_try)

\* the element handles page.query_selector_all(selectors_to_try[s]) returns
\* when selector s matches the containers of feed
Handles(feed, s) ==
    [k \in 1..Len(feed) |-> [sel |-> s, pos |-> k, dom |-> feed[k]]]

\* a page on which selector first is the first one that matches; with later,
\* every selector after it matches the same containers too
PageOf(feed, first, later) ==
    [s \in 1..NumSelectors |->
        IF s = first \/ (later /\ s > first) THEN Handles(feed, s) ELSE << >>]

\* the page on which no container selector matches
BlankPage == [s \in 1..NumSelectors |-> << >>]

\* the URLs the browser can be on, as sequences of segments; the segments
\* are chosen so that a needle of the program's substring tests occurs in
\* the URL exactly when it is one of its segments
LoginUrl == << "https://www.", "linkedin.com", "/login" >>

FeedUrl == << "https://www.", "linkedin.com", "/feed/" >>

ProfileUrl == << "https://www.", "linkedin.com", "/in/", "ann" >>

OtherSiteUrl == << "https://", "othersite.example", "/" >>

SearchUrl ==
    << "https://www.", "google.com", "/search?q=", "linkedin.com", "/feed/" >>

Urls ==
    { LoginUrl, FeedUrl, ProfileUrl, OtherSiteUrl, SearchUrl }

\* the URL before page.goto
BlankUrl == << "about:", "blank" >>

\* needle in current_url
InUrl(needle, current_url) ==
    \E i \in 1..Len(current_url) : current_url[i] = needle

\* the registrable domain of the URL's host
Host(current_url) == current_url[2]

\* ------------------------------------------------------------------------
\* scrape_feed_posts: helpers
\* ------------------------------------------------------------------------

\* the loop over selectors_to_try from selector s on, on page pg, where the
\* query of selector faulty raises (0: none does): the number of selectors
\* queried, the elements adopted, and whether a query raised
RECURSIVE DiscoverFrom_NoBreak(_, _, _)
DiscoverFrom_NoBreak(pg, faulty, s) ==
    IF s = faulty
    THEN [queried |-> s, post_elements |-> << >>, raised |-> TRUE]
    ELSE IF s = NumSelectors
    THEN [queried |-> s, post_elements |-> pg[s], raised |-> FALSE]
    ELSE DiscoverFrom_NoBreak(pg, faulty, s + 1)

RECURSIVE DiscoverFrom(_, _, _)
DiscoverFrom(pg, faulty, s) ==
    IF s = faulty
    THEN [queried |-> s, post_elements |-> << >>, raised |-> TRUE]
    ELSE IF pg[s] # << >> \/ s = NumSelectors
    THEN [queried |-> s, post_elements |-> pg[s], raised |-> FALSE]
    ELSE DiscoverFrom(pg, faulty, s + 1)

\* post_elements[:num_posts], with Python's slice semantics
Truncate_Off(elements, n) == elements

Truncate(elements, n) ==
    LET len  == Len(elements)
        stop == IF n >= 0
                THEN (IF n < len THEN n ELSE len)
                ELSE (IF len + n > 0 THEN len + n ELSE 0)
    IN  SubSeq(elements, 1, stop)

\* if post_data: posts.append(post_data)
CollectPost_Reset(posts_, post_data) ==
    IF post_data # None THEN Append(posts_, post_data) ELSE << >>

CollectPost(posts_, post_data) ==
    IF post_data # None THEN Append(posts_, post_data) ELSE posts_

\* the post_number scrape_feed_posts passes for the container at 0-based
\* position i, when posts_ has been collected so far
PostNumber_Dense(i, posts_) == Len(posts_) + 1

PostNumber(i, posts_) == i + 1

\* the numbers of posts scrape_feed_posts can be asked for
RequestedCounts == 0..DefaultNumPosts

\* ------------------------------------------------------------------------
\* State
\* ------------------------------------------------------------------------

VARIABLES
    pc,              \* where main is
    url,             \* self.page.url
    awaited,         \* history: the number of input() calls made so far
    navigated,       \* history: page.goto returned
    signal_url,      \* history: current_url as login_to_linkedin read it
    redirect,        \* history: how the in-page redirect to the feed went
    login_success,   \* the value login_to_linkedin returned
    scrape_invoked,  \* history: main called scrape_feed_posts
    num_posts,       \* the argument of scrape_feed_posts
    scrolls,         \* the scroll commands completed
    fault,           \* history: the unguarded call of scrape_feed_posts that raised
    page,            \* history: what the container selectors match
    queried,         \* history: the number of container selectors queried
    post_elements,   \* post_elements
    idx,             \* the containers of post_elements[:num_posts] processed
    posts,           \* posts
    outcome          \* what main reported

vars ==
    << pc, url, awaited, navigated, signal_url, redirect, login_success,
       scrape_invoked, num_posts, scrolls, fault, page, queried,
       post_elements, idx, posts, outcome >>

loginVars == << awaited, navigated, signal_url, redirect, login_success >>

scrapeVars ==
    << num_posts, scrolls, fault, page, queried, post_elements, idx, posts >>

\* LinkedInScraper.__init__ and the start of main
Init ==
    /\ pc = "start_browser"
    /\ url = BlankUrl
    /\ awaited = 0
    /\ navigated = FALSE
    /\ signal_url = << >>
    /\ redirect = "none"
    /\ login_success = "pending"
    /\ scrape_invoked = FALSE
    /\ num_posts = 0
    /\ scrolls = 0
    /\ fault = "none"
    /\ page = BlankPage
    /\ queried = 0
    /\ post_elements = << >>
    /\ idx = 0
    /\ posts = << >>
    /\ outcome = "running"

\* ------------------------------------------------------------------------
\* main and login_to_linkedin
\* ------------------------------------------------------------------------

\* main: await scraper.start_browser(); an exception goes to main's except
\* and finally
StartBrowser ==
    /\ pc = "start_browser"
    /\ \E ok \in BOOLEAN :
         IF ok
         THEN /\ pc' = "login_goto"
              /\ outcome' = outcome
         ELSE /\ pc' = "closed"
              /\ outcome' = "error"
    /\ UNCHANGED << url, loginVars, scrape_invoked, scrapeVars >>

\* login_to_linkedin up to input(): page.goto raises (return False from the
\* outer except) or the login page is shown and the operator is prompted
LoginGoto ==
    /\ pc = "login_goto"
    /\ \E ok \in BOOLEAN :
         IF ok
         THEN /\ url' = LoginUrl
              /\ navigated' = TRUE
              /\ awaited' = awaited + 1
              /\ login_success' = login_success
              /\ pc' = "await_input"
         ELSE /\ login_success' = "False"
              /\ pc' = "login_returned"
              /\ UNCHANGED << url, navigated, awaited >>
    /\ UNCHANGED << signal_url, redirect, scrape_invoked, scrapeVars, outcome >>

\* the operator uses the browser while the first input() blocks (the
\* program does not read the URL again after that)
OperatorNavigates ==
    /\ pc = "await_input"
    /\ \E u \in Urls : url' = u
    /\ UNCHANGED << pc, loginVars, scrape_invoked, scrapeVars, outcome >>

\* 'linkedin.com' not in current_url
OnLinkedIn(current_url) == InUrl("linkedin.com", current_url)

\* any(path in current_url for path in ['/feed/', '/in/', ...])
OnSurface_Any(current_url) == TRUE

OnSurface(current_url) == \E path \in SurfacePaths : InUrl(path, current_url)

\* the redirect block enters its except handler: page.evaluate raised, or
\* page.wait_for_selector timed out
RedirectRaised_EvaluateOnly(went) == went = "evaluate_raised"

RedirectRaised(went) == went \in {"evaluate_raised", "marker_timeout"}

\* login_to_linkedin from the return of the first input() on: the URL
\* checks, the redirect to the feed and its except handler, which prompts
\* and calls input() again. An input() that raises (end of input) goes to
\* the outer except.
FirstSignal ==
    /\ pc = "await_input"
    /\ \E signal \in {"enter", "eof"} :
         IF signal = "eof"
         THEN /\ login_success' = "False"
              /\ pc' = "login_returned"
              /\ UNCHANGED << url, signal_url, redirect, awaited >>
         ELSE
           /\ signal_url' = url
           /\ IF ~OnLinkedIn(url) \/ ~OnSurface(url)
              THEN /\ login_success' = "False"
                   /\ pc' = "login_returned"
                   /\ UNCHANGED << url, redirect, awaited >>
              ELSE IF InUrl("/feed/", url)
              THEN /\ login_success' = "True"
                   /\ pc' = "login_returned"
                   /\ UNCHANGED << url, redirect, awaited >>
              ELSE
                \E went \in {"ok", "evaluate_raised", "marker_timeout"} :
                  /\ redirect' = went
                  /\ url' = IF went = "evaluate_raised" THEN url ELSE FeedUrl
                  /\ IF RedirectRaised(went)
                     THEN /\ pc' = "await_input_again"
                          /\ awaited' = awaited + 1
                          /\ login_success' = login_success
                     ELSE /\ pc' = "login_returned"
                          /\ login_success' = "True"
                          /\ awaited' = awaited
    /\ UNCHANGED << navigated, scrape_invoked, scrapeVars, outcome >>

\* the return of input("Press Enter when you're on your feed...") and
\* return True; an input() that raises goes to the outer except
SecondSignal ==
    /\ pc = "await_input_again"
    /\ \E signal \in {"enter", "eof"} :
         login_success' = IF signal = "enter" THEN "True" ELSE "False"
    /\ pc' = "login_returned"
    /\ UNCHANGED << url, awaited, navigated, signal_url, redirect,
                    scrape_invoked, scrapeVars, outcome >>

\* main: if not login_success: return; else scrape_feed_posts(num_posts=5)
\* is entered
MainAfterLogin ==
    /\ pc = "login_returned"
    /\ IF login_success # "True"
       THEN /\ pc' = "closed"
            /\ outcome' = "login_failed"
            /\ UNCHANGED << scrape_invoked, num_posts >>
       ELSE /\ pc' = "wait_feed"
            /\ scrape_invoked' = TRUE
            /\ num_posts' = DefaultNumPosts
            /\ outcome' = outcome
    /\ UNCHANGED << url, loginVars, scrolls, fault, page, queried,
                    post_elements, idx, posts >>

\* ------------------------------------------------------------------------
\* scrape_feed_posts
\* ------------------------------------------------------------------------

\* page.wait_for_selector for the feed, in its own try: a timeout is
\* printed and the method goes on
WaitForFeed ==
    /\ pc = "wait_feed"
    /\ \E went \in {"ok", "raised"} : pc' = "scroll"
    /\ UNCHANGED << url, loginVars, scrape_invoked, scrapeVars, outcome >>

\* one pass of the scroll loop: page.evaluate is guarded only by the outer
\* try, so an exception there makes scrape_feed_posts return []
Scroll ==
    /\ pc = "scroll"
    /\ scrolls < NumScrolls
    /\ \E ok \in BOOLEAN :
         IF ok
         THEN /\ scrolls' = scrolls + 1
              /\ pc' = IF scrolls + 1 = NumScrolls THEN "discover" ELSE "scroll"
              /\ UNCHANGED << fault, posts >>
         ELSE /\ fault' = "scroll"
              /\ posts' = << >>
              /\ pc' = "scrape_returned"
              /\ scrolls' = scrolls
    /\ UNCHANGED << url, loginVars, scrape_invoked, num_posts, page, queried,
                    post_elements, idx, outcome >>

\* the loop over selectors_to_try on the page the browser shows, and
\* if not post_elements: return []
Discover ==
    /\ pc = "discover"
    /\ \E pg \in { PageOf(feed, first, later) :
                     feed \in Feeds \ {<< >>}, first \in 1..NumSelectors,
                     later \in BOOLEAN } \cup {BlankPage},
          faulty \in 0..NumSelectors :
         LET found == DiscoverFrom(pg, faulty, 1)
         IN  /\ page' = pg
             /\ queried' = found.queried
             /\ post_elements' = found.post_elements
             /\ fault' = IF found.raised THEN "query" ELSE fault
             /\ pc' = IF found.post_elements = << >>
                      THEN "scrape_returned" ELSE "extract"
    /\ posts' = << >>
    /\ UNCHANGED << url, loginVars, scrape_invoked, num_posts, scrolls, idx,
                    outcome >>

\* one pass of the loop over post_elements[:num_posts]. extract_post_data
\* catches every exception itself, so the except of the loop body is never
\* entered.
ExtractNext ==
    /\ pc = "extract"
    /\ idx < Len(Truncate(post_elements, num_posts))
    /\ LET post_element == Truncate(post_elements, num_posts)[idx + 1]
           post_data    == ExtractPostData(post_element, PostNumber(idx, posts))
       IN  posts' = CollectPost(posts, post_data)
    /\ idx' = idx + 1
    /\ UNCHANGED << pc, url, loginVars, scrape_invoked, num_posts, scrolls,
                    fault, page, queried, post_elements, outcome >>

\* return posts
ScrapeReturn ==
    /\ pc = "extract"
    /\ idx = Len(Truncate(post_elements, num_posts))
    /\ pc' = "scrape_returned"
    /\ UNCHANGED << url, loginVars, scrape_invoked, scrapeVars, outcome >>

\* main: if not posts: return; else the posts are printed; then finally
MainReport ==
    /\ pc = "scrape_returned"
    /\ outcome' = IF posts = << >> THEN "no_posts" ELSE "displayed"
    /\ pc' = "closed"
    /\ UNCHANGED << url, loginVars, scrape_invoked, scrapeVars >>

Next ==
    \/ StartBrowser
    \/ LoginGoto
    \/ OperatorNavigates
    \/ FirstSignal
    \/ SecondSignal
    \/ MainAfterLogin
    \/ WaitForFeed
    \/ Scroll
    \/ Discover
    \/ ExtractNext
    \/ ScrapeReturn
    \/ MainReport

\* a run of main
Spec == Init /\ [][Next]_vars

\* scrape_feed_posts(num_posts) on its own: the state in which main enters
\* it after a login on the feed page, with any requested count
InitScrape ==
    /\ pc = "wait_feed"
    /\ url = FeedUrl
    /\ awaited = 1
    /\ navigated = TRUE
    /\ signal_url = FeedUrl
    /\ redirect = "none"
    /\ login_success = "True"
    /\ scrape_invoked = TRUE
    /\ num_posts \in RequestedCounts
    /\ scrolls = 0
    /\ fault = "none"
    /\ page = BlankPage
    /\ queried = 0
    /\ post_elements = << >>
    /\ idx = 0
    /\ posts = << >>
    /\ outcome = "running"

NextScrape ==
    \/ WaitForFeed
    \/ Scroll
    \/ Discover
    \/ ExtractNext
    \/ ScrapeReturn

SpecScrape == InitScrape /\ [][NextScrape]_vars

TypeOK ==
    /\ pc \in {"start_browser", "login_goto", "await_input",
               "await_input_again", "login_returned", "wait_feed", "scroll",
               "discover", "extract", "scrape_returned", "closed"}
    /\ awaited \in 0..2
    /\ scrolls \in 0..NumScrolls
    /\ idx \in 0..MaxContainers
    /\ Len(posts) <= MaxContainers

\* ------------------------------------------------------------------------
\* Properties
\* ------------------------------------------------------------------------

\* post_elements[:num_posts]: the containers handed to extract_post_data
Todo == Truncate(post_elements, num_posts)

\* the positions (in posts) of the records built from container i
RecordsOf(i) == { j \in 1..Len(posts) : posts[j].element.pos = i }

LoginReturned == login_success # "pending"

RedirectFailed == redirect \in {"evaluate_raised", "marker_timeout"}

\* the four extracted fields of two records agree
SameFields(r1, r2) ==
    /\ r1.author = r2.author
    /\ r1.content = r2.content
    /\ r1.timestamp = r2.timestamp
    /\ r1.engagement = r2.engagement

C2_NoEmptyRecord ==
    /\ \A j \in 1..Len(posts) :
         ~(posts[j].author = DefaultAuthor /\ posts[j].content = "")
    /\ \A i \in 1..idx :
         (/\ ~Todo[i].dom.author.el
          /\ ContentFrom(Todo[i].dom.content.cascade, 1) = "")
         => RecordsOf(i) = {}

C2_Witness ==
    /\ pc = "scrape_returned"
    /\ idx = 2
    /\ Todo[1].dom = DomEmpty
    /\ Todo[2].dom = DomContentOnly
    /\ Len(posts) = 1
    /\ posts[1].author = DefaultAuthor
    /\ posts[1].content # ""

\* C3: the returned list is no longer than the requested count and no longer
\* than the list of containers, and its records come from the containers of
\* the adopted list in page order, each container at most once.
C3_BoundedInOrder ==
    /\ Len(posts) <= num_posts
    /\ Len(posts) <= Len(post_elements)
    /\ \A j \in 1..Len(posts) :
         /\ posts[j].element.pos \in 1..Len(post_elements)
         /\ posts[j].element.sel = post_elements[posts[j].element.pos].sel
         /\ j > 1 => posts[j - 1].element.pos < posts[j].element.pos

C3_Witness ==
    /\ pc = "scrape_returned"
    /\ num_posts = 2
    /\ Len(post_elements) = 3
    /\ Len(posts) = 2
    /\ post_elements[3].dom = DomFull

\* C4: if the URL read at the operator's signal is not on the target
\* application's domain, login_to_linkedin does not return True and
\* scrape_feed_posts is never invoked.
C4_OffDomainRejected ==
    (signal_url # << >> /\ Host(signal_url) # "linkedin.com")
    => (login_success # "True" /\ ~scrape_invoked)

Unfault(dom) ==
    [ author    |-> [dom.author EXCEPT !.raises = FALSE],
      content   |-> [dom.content EXCEPT !.raises = FALSE],
      reactions |-> [ raises |-> FALSE,
                      els |-> [k \in 1..Len(dom.reactions.els) |->
                                 [dom.reactions.els[k] EXCEPT !.raises = FALSE]] ],
      time      |-> [dom.time EXCEPT !.raises = FALSE] ]

ReactionsFault(dom) ==
    \/ dom.reactions.raises
    \/ \E k \in 1..Len(dom.reactions.els) : dom.reactions.els[k].raises

\* the record per-field isolation promises for a container: the faulted
\* fields at their defaults, the others as without the fault
Isolated(post_element, n) ==
    LET dom   == post_element.dom
        clean == [post_element EXCEPT !.dom = Unfault(dom)]
    IN  [ author     |-> IF dom.author.raises THEN DefaultAuthor
                         ELSE IF clean.dom.author.el
                         THEN Strip(clean.dom.author.text) ELSE DefaultAuthor,
          content    |-> IF dom.content.raises THEN DefaultContent
                         ELSE ContentFrom(clean.dom.content.cascade, 1),
          engagement |-> IF ReactionsFault(dom) THEN DefaultEngagement
                         ELSE ExtractEngagement(clean.dom),
          timestamp  |-> IF dom.time.raises THEN DefaultTimestamp
                         ELSE ExtractTimestamp(clean.dom) ]

\* C7: a fault in the extraction of one field does not prevent the post
\* from being returned (the faulted field counting as its default) with the
\* other fields as they would have been without the fault.
C7_FieldIsolation ==
    \A i \in 1..idx :
        LET dom      == Todo[i].dom
            expected == Isolated(Todo[i], i)
        IN  IsMeaningful(expected) =>
                \E j \in RecordsOf(i) :
                    /\ dom.author.raises \/ posts[j].author = expected.author
                    /\ dom.content.raises \/ posts[j].content = expected.content
                    /\ ReactionsFault(dom)
                         \/ posts[j].engagement = expected.engagement
                    /\ dom.time.raises \/ posts[j].timestamp = expected.timestamp

\* C8: a container whose extraction faults yields no record, and only that
\* one: every container among the first num_posts is processed, and each of
\* them has exactly the record its own extraction gives, whatever happened
\* to the others.
C8_PostIsolation ==
    /\ \A i \in 1..idx :
         LET own == ExtractPostData(Todo[i], i)
         IN  IF own = None
             THEN RecordsOf(i) = {}
             ELSE /\ Cardinality(RecordsOf(i)) = 1
                  /\ \A j \in RecordsOf(i) : SameFields(posts[j], own)
    /\ (pc = "scrape_returned" /\ fault = "none" /\ post_elements # << >>)
       => idx = Len(Todo)

C8_Witness ==
    /\ pc = "scrape_returned"
    /\ idx = 3
    /\ Todo[1].dom = DomFull
    /\ Todo[2].dom = DomAuthorFault
    /\ Todo[3].dom = DomContentOnly
    /\ Len(posts) = 2
    /\ posts[2].element.pos = 3

\* C9: a scroll command that raises is absorbed at that scroll step:
\* container discovery still runs.
C9_ScrollFaultAbsorbed ==
    (pc = "scrape_returned" /\ fault = "scroll") => queried > 0

\* the first container selector that matches on the page, 0 if none does
FirstMatch ==
    IF \A s \in 1..NumSelectors : page[s] = << >> THEN 0
    ELSE CHOOSE s \in 1..NumSelectors :
           /\ page[s] # << >>
           /\ \A t \in 1..(s - 1) : page[t] = << >>

\* C10: discovery adopts the first selector, in declared order, that matches:
\* the selectors after it are not queried and every record comes from its
\* elements; when no selector matches, all were queried and the result is
\* the empty list, with no exception.
C10_FirstMatchAdopted ==
    (queried > 0 /\ fault # "query") =>
        IF FirstMatch = 0
        THEN /\ queried = NumSelectors
             /\ post_elements = << >>
             /\ posts = << >>
             /\ pc = "scrape_returned"
             /\ fault = "none"
        ELSE /\ queried = FirstMatch
             /\ post_elements = page[FirstMatch]
             /\ \A j \in 1..Len(posts) : posts[j].element.sel = FirstMatch

C10_Witness ==
    /\ pc = "scrape_returned"
    /\ queried = 2
    /\ page[3] # << >>
    /\ Len(posts) = 2

====
